---- MODULE Spec2Model ----
(***************************************************************************)
(* Model of two parts of the router crate:                                 *)
(*   core/payouts/validator.rs       the payout-create validation          *)
(*                                   (validate_create_request and its      *)
(*                                   uniqueness lookup), run by concurrent *)
(*                                   request tasks against one payouts     *)
(*                                   table;                                *)
(*   connector/helcim/transformers.rs  the Helcim request and response     *)
(*                                   transformers and the status mapping.  *)
(***************************************************************************)
EXTENDS Integers, Sequences, FiniteSets, TLC

(* The field names of the records below. TLC keeps the fields of a record *)
(* in the order in which their names first occur in the module: they are   *)
(* listed here in an order in which every record below is written sorted.  *)
RecordFields ==
    DOMAIN [kind |-> 0, tag |-> 0, merchant_id |-> 0, some |-> 0,
            pc |-> 0, op |-> 0, enum |-> 0, type |-> 0, capture_id |-> 0,
            card_expiry |-> 0, name |-> 0, resource_id |-> 0,
            pre_auth_transaction_id |-> 0, connector_refund_id |-> 0,
            full_name |-> 0, address |-> 0, billing |-> 0,
            payment_method_data |-> 0, sync_type |-> 0,
            connector_transaction_id |-> 0, flow |-> 0, Purchase |-> 0,
            Approved |-> 0, field_name |-> 0, message |-> 0, id |-> 0,
            card |-> 0, value |-> 0, error |-> 0, is_db_not_found |-> 0,
            payout |-> 0, account |-> 0, input |-> 0, wire |-> 0,
            variant |-> 0, n |-> 0, s |-> 0, fields |-> 0, order_id |-> 0,
            card_number |-> 0, street1 |-> 0, redirection_data |-> 0,
            amount |-> 0, refund_status |-> 0, line1 |-> 0, request |-> 0,
            response |-> 0, PreAuth |-> 0, Declined |-> 0, req |-> 0,
            output |-> 0, card_c_v_v |-> 0, card_exp_month |-> 0,
            postal_code |-> 0, mandate_reference |-> 0,
            original_transaction_id |-> 0, router_data |-> 0, zip |-> 0,
            status |-> 0, data |-> 0, Capture |-> 0, payout_id |-> 0,
            card_exp_year |-> 0, street2 |-> 0, connector_metadata |-> 0,
            line2 |-> 0, transaction_id |-> 0, Verify |-> 0,
            payout_token |-> 0, payout_method_data |-> 0,
            method_data |-> 0, card_cvc |-> 0, network_txn_id |-> 0,
            browser_info |-> 0, city |-> 0, transaction_type |-> 0,
            Refund |-> 0, result |-> 0,
            connector_response_reference_id |-> 0, currency |-> 0,
            locker_calls |-> 0, ip_address |-> 0, email |-> 0,
            db_queries |-> 0, card_data |-> 0, lookup |-> 0,
            billing_address |-> 0, stored_at_receive |-> 0,
            ecommerce |-> 0, stored_at_lookup |-> 0]

(* Number of concurrent payout-create request tasks. *)
NumTasks == 2

(* Option::None of a string-valued Option. *)
NONE == "None"

Tasks == 1..NumTasks

Merchants == {"M1", "M2"}

(* The payout id callers supply; the ids the code generates are the others. *)
PayoutIds == {"P1"}

PayoutTokens == {"token_1"}

(* Largest connector transaction id of the modelled wire responses. *)
MaxTxnId == 2

(* Longest connector_transaction_id string handed to a capture request. *)
MaxLen == 2

VARIABLES
    tasks,      \* tasks[t]: the request task t running validate_create_request
    payouts,    \* the payouts table of the storage: a set of rows
    call,       \* the latest Helcim transformer call: [op, input, output]
    latest      \* the latest canonical payment response: [op, wire, data]

vars == <<tasks, payouts, call, latest>>

-----------------------------------------------------------------------------
(* Results and errors of the payout validator.                              *)

InvalidDataFormat(field) == [kind |-> "InvalidDataFormat", field_name |-> field]

PayoutNotFound == [kind |-> "PayoutNotFound"]

InternalServerError == [kind |-> "InternalServerError"]

DuplicatePayout(payout_id) == [kind |-> "DuplicatePayout", payout_id |-> payout_id]

Pending == [tag |-> "Pending"]

Ok(v) == [tag |-> "Ok", value |-> v]

Err(e) == [tag |-> "Err", error |-> e]

(* PayoutCreateRequest: the three fields validate_create_request reads. *)
PayoutCreateRequests ==
    [merchant_id : Merchants \cup {NONE},
     payout_id : PayoutIds \cup {NONE},
     payout_token : PayoutTokens \cup {NONE}]

(* What the locker answers to get_payment_method_from_hs_locker: an error, *)
(* a payload parse_struct rejects, or a payload it accepts.                *)
LockerReplies == {"error", "garbled", "valid"}

-----------------------------------------------------------------------------
(* The pure parts of validator.rs.                                          *)

(* A plausible slip: unwrap_or(true), an absent merchant_id is a mismatch. *)
MerchantIdPredicateAbsentRejected(account, req) ==
    IF req.merchant_id = NONE THEN TRUE ELSE req.merchant_id # account

(* req.merchant_id.as_ref().map(|mid| mid != merchant_id).unwrap_or(false) *)
MerchantIdPredicate(account, req) ==
    IF req.merchant_id = NONE THEN FALSE ELSE req.merchant_id # account

(* generate_uuid for task t: an identifier no other request carries. *)
GenerateUuid(t) == "uuid-" \o ToString(t)

(* The error of get_or_generate_uuid that `?` hands on. *)
InvalidPayoutId == [kind |-> "InvalidPayoutId"]

(* core_utils::get_or_generate_uuid: the caller's value, else a fresh one; *)
(* a Result: a value the caller supplies may be refused (accepted = FALSE). *)
GetOrGenerateUuid(t, provided, accepted) ==
    IF provided = NONE THEN Ok(GenerateUuid(t))
    ELSE IF accepted THEN Ok(provided) ELSE Err(InvalidPayoutId)

(* Rows of the table keyed by (merchant_id, payout_id). *)
RowsOf(table, merchant_id, payout_id) ==
    {row \in table :
        row.merchant_id = merchant_id /\ row.payout_id = payout_id}

(* StorageInterface::find_payout_by_merchant_id_payout_id: the row, a      *)
(* not-found error, or (backend_ok = FALSE) any other storage error.       *)
FindPayoutByMerchantIdPayoutId(table, merchant_id, payout_id, backend_ok) ==
    IF ~backend_ok
    THEN [tag |-> "Err", is_db_not_found |-> FALSE]
    ELSE IF RowsOf(table, merchant_id, payout_id) = {}
         THEN [tag |-> "Err", is_db_not_found |-> TRUE]
         ELSE [tag |-> "Ok",
               payout |-> CHOOSE row \in RowsOf(table, merchant_id, payout_id) : TRUE]

(* A plausible slip: a found row is reported as no row. *)
ValidateUniquenessIgnoresRow(payout, payout_id) ==
    IF payout.tag = "Err"
    THEN IF payout.is_db_not_found
         THEN Ok([some |-> FALSE])
         ELSE Err(InternalServerError)
    ELSE Ok([some |-> FALSE])

(* validate_uniqueness_of_payout_id_against_merchant_id, from the lookup's *)
(* answer on: Ok(None), Ok(Some(payout)) or Err(InternalServerError).      *)
ValidateUniquenessOfPayoutId(payout, payout_id) ==
    IF payout.tag = "Err"
    THEN IF payout.is_db_not_found
         THEN Ok([some |-> FALSE])
         ELSE Err(InternalServerError)
    ELSE IF payout.payout.payout_id = payout_id
         THEN Ok([some |-> TRUE, payout |-> payout.payout])
         ELSE Ok([some |-> FALSE])

(* A plausible slip: the arms of the match are swapped for a found row. *)
PayoutIdOutcomeAcceptsSome(unique, payout_id, payout_method_data) ==
    IF unique.tag = "Err"
    THEN Err(DuplicatePayout(payout_id))
    ELSE Ok([payout_id |-> payout_id, payout_method_data |-> payout_method_data])

(* The match of validate_create_request on the uniqueness result: the      *)
(* error is re-contexted to DuplicatePayout by change_context before `?`.  *)
PayoutIdOutcome(unique, payout_id, payout_method_data) ==
    IF unique.tag = "Err"
    THEN Err(DuplicatePayout(payout_id))
    ELSE IF unique.value.some
         THEN Err(DuplicatePayout(payout_id))
         ELSE Ok([payout_id |-> payout_id, payout_method_data |-> payout_method_data])

-----------------------------------------------------------------------------
(* The request tasks.                                                       *)

IdleTask ==
    [pc |-> "idle", account |-> NONE,
     req |-> [merchant_id |-> NONE, payout_id |-> NONE, payout_token |-> NONE],
     payout_id |-> NONE, payout_method_data |-> NONE, result |-> Pending,
     locker_calls |-> 0, db_queries |-> 0, lookup |-> NONE,
     stored_at_receive |-> FALSE, stored_at_lookup |-> FALSE]

NoCall == [op |-> "none"]

InitPayouts ==
    /\ tasks = [t \in Tasks |-> IdleTask]
    /\ payouts = {}
    /\ call = NoCall
    /\ latest = [op |-> "none"]

(* The task reaches the "Payout ID" part: the id is resolved and, unless   *)
(* that fails, the lookup is sent to the storage.                          *)
ToPayoutIdStep(t, task, payout_method_data, accepted) ==
    LET payout_id == GetOrGenerateUuid(t, task.req.payout_id, accepted)
    IN IF payout_id.tag = "Err"
       THEN [task EXCEPT !.pc = "done",
                         !.payout_method_data = payout_method_data,
                         !.result = payout_id]
       ELSE [task EXCEPT !.pc = "db",
                         !.payout_method_data = payout_method_data,
                         !.payout_id = payout_id.value]

(* validate_create_request up to its first await: the merchant-id check,   *)
(* then either the locker call or the payout-id lookup is issued.          *)
Receive(t, account, req, accepted) ==
    /\ tasks[t].pc = "idle"
    /\ LET t0 == [tasks[t] EXCEPT
                    !.account = account, !.req = req,
                    !.stored_at_receive =
                        RowsOf(payouts, account, req.payout_id) # {}]
       IN tasks' = [tasks EXCEPT ![t] =
            IF MerchantIdPredicate(account, req)
            THEN [t0 EXCEPT !.pc = "done",
                            !.result = Err(InvalidDataFormat("merchant_id"))]
            ELSE IF req.payout_token # NONE
                 THEN [t0 EXCEPT !.pc = "locker"]
                 ELSE ToPayoutIdStep(t, t0, NONE, accepted)]
    /\ UNCHANGED <<payouts, call, latest>>

(* The locker answers; the payload is parsed as PayoutMethodData. *)
LockerReturn(t, reply, accepted) ==
    /\ tasks[t].pc = "locker"
    /\ LET t0 == [tasks[t] EXCEPT !.locker_calls = @ + 1]
           failed(e) == [t0 EXCEPT !.pc = "done", !.result = Err(e)]
       IN tasks' = [tasks EXCEPT ![t] =
            CASE reply = "error" -> failed(PayoutNotFound)
              [] reply = "garbled" -> failed(InternalServerError)
              [] OTHER -> ToPayoutIdStep(t, t0, "PayoutMethodData", accepted)]
    /\ UNCHANGED <<payouts, call, latest>>

(* The storage answers the lookup; validate_create_request returns. *)
DbReturn(t, backend_ok) ==
    /\ tasks[t].pc = "db"
    /\ LET task == tasks[t]
           found == FindPayoutByMerchantIdPayoutId(
                        payouts, task.account, task.payout_id, backend_ok)
           unique == ValidateUniquenessOfPayoutId(found, task.payout_id)
           result == PayoutIdOutcome(unique, task.payout_id, task.payout_method_data)
       IN tasks' = [tasks EXCEPT ![t] =
            [task EXCEPT !.db_queries = @ + 1,
                         !.lookup = IF found.tag = "Ok" THEN "found"
                                    ELSE IF found.is_db_not_found THEN "not_found"
                                    ELSE "backend_error",
                         !.stored_at_lookup =
                             RowsOf(payouts, task.account, task.payout_id) # {},
                         !.result = result,
                         !.pc = IF result.tag = "Ok" THEN "validated" ELSE "done"]]
    /\ UNCHANGED <<payouts, call, latest>>

(* The caller of validate_create_request, on Ok: the insert of the payout  *)
(* row, on which the storage enforces uniqueness of (merchant_id,          *)
(* payout_id), and then the connector call.                                *)
Create(t) ==
    /\ tasks[t].pc = "validated"
    /\ LET task == tasks[t]
       IN IF RowsOf(payouts, task.account, task.payout_id) # {}
          THEN /\ tasks' = [tasks EXCEPT ![t] = [task EXCEPT !.pc = "conflict"]]
               /\ UNCHANGED <<payouts, call, latest>>
          ELSE /\ tasks' = [tasks EXCEPT ![t] = [task EXCEPT !.pc = "created"]]
               /\ payouts' = payouts \cup
                    {[merchant_id |-> task.account, payout_id |-> task.payout_id,
                      method_data |-> task.payout_method_data]}
               /\ UNCHANGED <<call, latest>>

NextPayouts ==
    \E t \in Tasks :
        \/ \E account \in Merchants, req \in PayoutCreateRequests,
              accepted \in BOOLEAN :
                Receive(t, account, req, accepted)
        \/ \E reply \in LockerReplies, accepted \in BOOLEAN :
                LockerReturn(t, reply, accepted)
        \/ \E backend_ok \in BOOLEAN : DbReturn(t, backend_ok)
        \/ Create(t)

SpecPayouts == InitPayouts /\ [][NextPayouts]_vars

-----------------------------------------------------------------------------
(* Properties of the payout-create validation.                              *)

(* validate_create_request has returned to its caller. *)
Returned(t) == tasks[t].pc \in {"done", "validated", "created", "conflict"}

(* The request names a payout_id and no merchant other than its own. *)
NamesOwnPayout(t) ==
    /\ tasks[t].req.payout_id # NONE
    /\ tasks[t].req.merchant_id \in {NONE, tasks[t].account}

Eligible(t) ==
    /\ tasks[t].result.tag = "Ok"
    /\ tasks[t].result.value.payout_id = tasks[t].req.payout_id

RejectedAsDuplicate(t) ==
    /\ tasks[t].result = Err(DuplicatePayout(tasks[t].req.payout_id))
    /\ tasks[t].pc = "done"

(* C1 as stated: whenever the table holds a row for (merchant, payout_id)  *)
(* when a create request of that merchant with that payout_id arrives, the *)
(* request fails with DuplicatePayout{payout_id} and nothing is created;   *)
(* whenever no row for the key is stored, a create request for it succeeds *)
(* and returns the payout_id.                                              *)
C1_AsStated ==
    \A t \in Tasks :
        Returned(t) /\ NamesOwnPayout(t) =>
            /\ tasks[t].stored_at_receive => RejectedAsDuplicate(t)
            /\ RowsOf(payouts, tasks[t].account, tasks[t].req.payout_id) = {}
                    => Eligible(t)

(* C1 amended: for a create request that passes the merchant-id check, the *)
(* payout-token and the payout-id resolution (its lookup is sent): if the  *)
(* table holds a row for its (merchant, payout_id) when it arrives, it     *)
(* fails with DuplicatePayout{payout_id} and nothing is created; if no row *)
(* for the key is stored and the lookup does not fail with a backend       *)
(* error, it succeeds and returns the payout_id.                           *)
C1_SequentialIdempotency ==
    \A t \in Tasks :
        Returned(t) /\ NamesOwnPayout(t) /\ tasks[t].db_queries = 1 =>
            /\ tasks[t].stored_at_receive => RejectedAsDuplicate(t)
            /\ ~tasks[t].stored_at_lookup /\ tasks[t].lookup # "backend_error"
                    => Eligible(t)

(* A request found its row and was rejected, after another request for    *)
(* which no row was stored had been accepted and its row created.         *)
C1_Witness ==
    \E t, u \in Tasks :
        /\ tasks[u].pc = "created" /\ Eligible(u) /\ ~tasks[u].stored_at_lookup
        /\ tasks[t].stored_at_receive /\ tasks[t].lookup = "found"
        /\ RejectedAsDuplicate(t)
        /\ tasks[t].account = tasks[u].account

(* Two tasks handle requests for the same (merchant_id, payout_id). *)
SameKey(t, u) ==
    /\ tasks[t].payout_id # NONE
    /\ tasks[t].account = tasks[u].account
    /\ tasks[t].payout_id = tasks[u].payout_id

(* C2 as stated: of the requests for one (merchant_id, payout_id), the     *)
(* table being empty at the start, at most one gets an eligible (Ok)       *)
(* result from validate_create_request.                                    *)
C2_AsStated ==
    \A t, u \in Tasks :
        t # u /\ SameKey(t, u) => ~(tasks[t].result.tag = "Ok" /\ tasks[u].result.tag = "Ok")

(* C2 amended: validate_create_request gives an eligible result to every   *)
(* request whose lookup is answered before a row for its (merchant_id,     *)
(* payout_id) is stored, possibly to several concurrent ones, and to none  *)
(* whose lookup is answered after; the row is created at most once only    *)
(* by the uniqueness the storage enforces on insert.                       *)
C2_GuardUpToTheInsert ==
    /\ \A t \in Tasks :
          tasks[t].db_queries = 1 /\ tasks[t].lookup # "backend_error" =>
              (tasks[t].result.tag = "Ok" <=> ~tasks[t].stored_at_lookup)
    /\ \A t, u \in Tasks :
          t # u /\ SameKey(t, u) => ~(tasks[t].pc = "created" /\ tasks[u].pc = "created")
    /\ \A row, other \in payouts :
          /\ row.merchant_id = other.merchant_id
          /\ row.payout_id = other.payout_id
          => row = other

(* Two concurrent requests for one key were both found eligible; one       *)
(* created the row and the other's insert hit the uniqueness constraint.   *)
C2_Witness ==
    \E t, u \in Tasks :
        /\ t # u /\ SameKey(t, u)
        /\ tasks[t].result.tag = "Ok" /\ tasks[u].result.tag = "Ok"
        /\ tasks[t].pc = "created" /\ tasks[u].pc = "conflict"

(* C3 as stated: a lookup that fails with a backend error (not not-found)  *)
(* makes validate_create_request fail with InternalServerError, and        *)
(* creation does not proceed.                                              *)
C3_AsStated ==
    \A t \in Tasks :
        tasks[t].lookup = "backend_error" =>
            tasks[t].result = Err(InternalServerError) /\ tasks[t].pc = "done"

(* C6: a request whose merchant_id is present and differs from the         *)
(* account's fails with InvalidDataFormat{merchant_id} before any locker   *)
(* call or storage lookup is made; one with an absent or equal merchant_id *)
(* does not fail with it.                                                  *)
C6_MerchantIdCheckedFirst ==
    \A t \in Tasks :
        tasks[t].pc # "idle" =>
            IF tasks[t].req.merchant_id \notin {NONE, tasks[t].account}
            THEN /\ tasks[t].result = Err(InvalidDataFormat("merchant_id"))
                 /\ tasks[t].pc = "done"
                 /\ tasks[t].locker_calls = 0
                 /\ tasks[t].db_queries = 0
            ELSE tasks[t].result # Err(InvalidDataFormat("merchant_id"))

(* A request with a payout token and a stored payout_id was rejected on    *)
(* its merchant_id, and one with an absent merchant_id reached the lookup. *)
C6_Witness ==
    \E t, u \in Tasks :
        /\ tasks[t].req.merchant_id \notin {NONE, tasks[t].account}
        /\ tasks[t].req.payout_token # NONE
        /\ tasks[t].stored_at_receive
        /\ tasks[t].result = Err(InvalidDataFormat("merchant_id"))
        /\ tasks[u].req.merchant_id = NONE
        /\ tasks[u].db_queries = 1

-----------------------------------------------------------------------------
(* connector/helcim/transformers.rs: values.                                *)
(* A record-valued Option is a sequence: <<>> is None, <<x>> is Some(x).    *)
(* A String that the code parses or formats is a sequence of characters.    *)

Digits == <<"0", "1", "2", "3", "4", "5", "6", "7", "8", "9">>

TxnIds == 0..MaxTxnId

(* Characters of the connector_transaction_id strings tried on capture. *)
Chars == {"0", "7", "a", "+"}

RECURSIVE StringsOfLen(_)
StringsOfLen(n) ==
    IF n = 0 THEN {<<>>}
    ELSE {Append(s, c) : s \in StringsOfLen(n - 1), c \in Chars}

Strings == UNION {StringsOfLen(n) : n \in 0..MaxLen}

(* ConnectorError variants the transformers return. *)
NotImplemented(what) == [kind |-> "NotImplemented", message |-> what]

MissingRequiredField(field) == [kind |-> "MissingRequiredField", field_name |-> field]

RequestEncodingFailed == [kind |-> "RequestEncodingFailed"]

HelcimPaymentStatus == {"Approved", "Declined"}

HelcimTransactionType == {"Purchase", "PreAuth", "Capture", "Verify"}

HelcimRefundTransactionType == {"Refund"}

AttemptStatus(variant) == [enum |-> "AttemptStatus", variant |-> variant]

RefundStatus(variant) == [enum |-> "RefundStatus", variant |-> variant]

(* HelcimPaymentsResponse as deserialized from the wire. *)
HelcimPaymentsResponses ==
    [status : HelcimPaymentStatus, transaction_id : TxnIds,
     transaction_type : HelcimTransactionType]

(* RefundResponse as deserialized from the wire. *)
RefundResponses ==
    [status : HelcimPaymentStatus, transaction_id : TxnIds,
     transaction_type : HelcimRefundTransactionType]

(* u64::to_string: the decimal digits, most significant first. *)
RECURSIVE U64ToString(_)
U64ToString(n) ==
    IF n < 10 THEN <<Digits[n + 1]>>
    ELSE U64ToString(n \div 10) \o <<Digits[(n % 10) + 1]>>

DigitValue(c) == CHOOSE d \in 0..9 : Digits[d + 1] = c

IsDigit(c) == \E d \in 0..9 : Digits[d + 1] = c

RECURSIVE DigitsValue(_)
DigitsValue(s) ==
    IF s = <<>> THEN 0
    ELSE 10 * DigitsValue(SubSeq(s, 1, Len(s) - 1)) + DigitValue(s[Len(s)])

(* str::parse::<u64>: an optional leading "+", then one or more decimal    *)
(* digits; anything else is an error. (A value above u64::MAX is an error  *)
(* too; strings of at most MaxLen characters stay far below it.)           *)
ParseU64(s) ==
    LET digits == IF s # <<>> /\ s[1] = "+" THEN Tail(s) ELSE s
    IN IF digits # <<>> /\ \A i \in 1..Len(digits) : IsDigit(digits[i])
       THEN Ok(DigitsValue(digits))
       ELSE Err("ParseIntError")

(* serde_json::Value, as far as the connector metadata needs it. *)
JsonNumber(n) == [type |-> "number", n |-> n]

JsonString(s) == [type |-> "string", s |-> s]

JsonObject(fields) == [type |-> "object", fields |-> fields]

(* serde_json::json!(HelcimMetaData { capture_id }) *)
HelcimMetaDataToJson(meta) ==
    JsonObject([capture_id |-> JsonNumber(meta.capture_id)])

(* Deserialize for HelcimMetaData: an object with a capture_id that is an  *)
(* unsigned integer; other keys are ignored.                                *)
HelcimMetaDataFromJson(json) ==
    IF /\ json.type = "object"
       /\ "capture_id" \in DOMAIN json.fields
       /\ json.fields["capture_id"].type = "number"
       /\ json.fields["capture_id"].n >= 0
    THEN Ok([capture_id |-> json.fields["capture_id"].n])
    ELSE Err("ParsingError")

(* connector::utils::to_connector_meta: the metadata must be there and     *)
(* must deserialize, else the request cannot be encoded.                   *)
ToConnectorMeta(connector_meta) ==
    IF connector_meta = <<>> THEN Err(RequestEncodingFailed)
    ELSE IF HelcimMetaDataFromJson(connector_meta[1]).tag = "Ok"
         THEN HelcimMetaDataFromJson(connector_meta[1])
         ELSE Err(RequestEncodingFailed)

(* RouterData::get_billing: the billing Address of the request, or the    *)
(* missing-field error of an absent billing address.                       *)
GetBilling(router_data) ==
    IF router_data.billing = <<>>
    THEN Err(MissingRequiredField("billing.address"))
    ELSE Ok(router_data.billing[1])

(* AddressDetailsData::get_full_name / get_line1 / get_zip. *)
GetAddressField(address, field, name) ==
    IF address[field] = NONE THEN Err(MissingRequiredField(name))
    ELSE Ok(address[field])

(* get_browser_info()?.get_ip_address()? of a request. *)
GetIpAddress(request) ==
    IF request.browser_info = <<>>
    THEN Err(MissingRequiredField("browser_info"))
    ELSE IF request.browser_info[1].ip_address = NONE
         THEN Err(MissingRequiredField("browser_info.ip_address"))
         ELSE Ok(request.browser_info[1].ip_address)

(* CardData::get_card_expiry_month_year_2_digit_with_delimiter(""): the    *)
(* month followed by the last two digits of the year.                      *)
GetCardExpiry(card) ==
    card.card_exp_month
        \o SubSeq(card.card_exp_year, Len(card.card_exp_year) - 1, Len(card.card_exp_year))

-----------------------------------------------------------------------------
(* connector/helcim/transformers.rs: the transformers.                      *)

(* A plausible slip: the address is read without the billing.address check *)
(* and its absence surfaces as the first missing sub-field.                *)
HelcimPaymentsRequestNoAddressCheck(item) ==
    IF item.router_data.request.payment_method_data.kind # "Card"
    THEN Err(NotImplemented("Payment methods"))
    ELSE IF GetBilling(item.router_data).tag = "Err"
         THEN GetBilling(item.router_data)
         ELSE Err(MissingRequiredField("address.first_name"))

(* A plausible slip: the fields are validated before the payment method    *)
(* is matched.                                                             *)
HelcimPaymentsRequestFieldsFirst(item) ==
    IF GetBilling(item.router_data).tag = "Err"
    THEN GetBilling(item.router_data)
    ELSE IF GetIpAddress(item.router_data.request).tag = "Err"
         THEN GetIpAddress(item.router_data.request)
         ELSE Err(NotImplemented("Payment methods"))

(* TryFrom<&HelcimRouterData<&PaymentsAuthorizeRouterData>> for            *)
(* HelcimPaymentsRequest.                                                  *)
HelcimPaymentsRequestTryFrom(item) ==
    LET router_data == item.router_data
        pmd == router_data.request.payment_method_data
    IN IF pmd.kind # "Card"
       THEN Err(NotImplemented("Payment methods"))
       ELSE
       LET req_card == pmd.card
           card_data == [card_expiry |-> GetCardExpiry(req_card),
                         card_number |-> req_card.card_number,
                         card_c_v_v |-> req_card.card_cvc]
           billing == GetBilling(router_data)
       IN IF billing.tag = "Err" THEN billing
          ELSE IF billing.value.address = <<>>
          THEN Err(MissingRequiredField("billing.address"))
          ELSE
          LET req_address == billing.value.address[1]
              name == GetAddressField(req_address, "full_name", "address.full_name")
              street1 == GetAddressField(req_address, "line1", "address.line1")
              postal_code == GetAddressField(req_address, "zip", "address.zip")
              ip_address == GetIpAddress(router_data.request)
          IN IF name.tag = "Err" THEN name
             ELSE IF street1.tag = "Err" THEN street1
             ELSE IF postal_code.tag = "Err" THEN postal_code
             ELSE IF ip_address.tag = "Err" THEN ip_address
             ELSE Ok([amount |-> item.amount,
                      currency |-> router_data.request.currency,
                      ip_address |-> ip_address.value,
                      card_data |-> card_data,
                      billing_address |->
                          [name |-> name.value,
                           street1 |-> street1.value,
                           postal_code |-> postal_code.value,
                           street2 |-> req_address.line2,
                           city |-> req_address.city,
                           email |-> router_data.request.email],
                      ecommerce |-> NONE])

(* A plausible slip: a declined capture is reported as a plain failure. *)
AttemptStatusFromCaptureFailure(item) ==
    CASE item.transaction_type = "Purchase" ->
            (CASE item.status = "Approved" -> AttemptStatus("Charged")
               [] item.status = "Declined" -> AttemptStatus("Failure"))
      [] item.transaction_type = "PreAuth" ->
            (CASE item.status = "Approved" -> AttemptStatus("Authorized")
               [] item.status = "Declined" -> AttemptStatus("AuthorizationFailed"))
      [] item.transaction_type = "Capture" ->
            (CASE item.status = "Approved" -> AttemptStatus("Charged")
               [] item.status = "Declined" -> AttemptStatus("Failure"))
      [] item.transaction_type = "Verify" ->
            (CASE item.status = "Approved" -> AttemptStatus("AuthenticationSuccessful")
               [] item.status = "Declined" -> AttemptStatus("AuthenticationFailed"))

(* From<HelcimPaymentsResponse> for enums::AttemptStatus: the two nested   *)
(* exhaustive matches, with no wildcard arm.                               *)
AttemptStatusFrom(item) ==
    CASE item.transaction_type = "Purchase" ->
            (CASE item.status = "Approved" -> AttemptStatus("Charged")
               [] item.status = "Declined" -> AttemptStatus("Failure"))
      [] item.transaction_type = "PreAuth" ->
            (CASE item.status = "Approved" -> AttemptStatus("Authorized")
               [] item.status = "Declined" -> AttemptStatus("AuthorizationFailed"))
      [] item.transaction_type = "Capture" ->
            (CASE item.status = "Approved" -> AttemptStatus("Charged")
               [] item.status = "Declined" -> AttemptStatus("CaptureFailed"))
      [] item.transaction_type = "Verify" ->
            (CASE item.status = "Approved" -> AttemptStatus("AuthenticationSuccessful")
               [] item.status = "Declined" -> AttemptStatus("AuthenticationFailed"))

(* From<RefundResponse> for enums::RefundStatus. *)
RefundStatusFrom(item) ==
    CASE item.transaction_type = "Refund" ->
            (CASE item.status = "Approved" -> RefundStatus("Success")
               [] item.status = "Declined" -> RefundStatus("Failure"))

(* PaymentsResponseData::TransactionResponse as the transformers fill it. *)
TransactionResponse(transaction_id, connector_metadata) ==
    [resource_id |-> [kind |-> "ConnectorTransactionId",
                      id |-> U64ToString(transaction_id)],
     redirection_data |-> NONE,
     mandate_reference |-> NONE,
     connector_metadata |-> connector_metadata,
     network_txn_id |-> NONE,
     connector_response_reference_id |-> NONE]

(* TryFrom<ResponseRouterData<F, HelcimPaymentsResponse,                   *)
(* PaymentsAuthorizeData, PaymentsResponseData>>.                          *)
AuthorizeResponseTryFrom(item) ==
    Ok([response |-> Ok(TransactionResponse(item.response.transaction_id, <<>>)),
        status |-> AttemptStatusFrom(item.response)])

(* A plausible slip: the multiple-capture arm answers like the single one. *)
SyncResponseAnswersMultiple(item) ==
    Ok([response |-> Ok(TransactionResponse(item.response.transaction_id, <<>>)),
        status |-> AttemptStatusFrom(item.response)])

(* TryFrom<ResponseRouterData<F, HelcimPaymentsResponse, PaymentsSyncData, *)
(* PaymentsResponseData>>.                                                 *)
SyncResponseTryFrom(item) ==
    CASE item.data.request.sync_type = "SinglePaymentSync" ->
            Ok([response |-> Ok(TransactionResponse(item.response.transaction_id, <<>>)),
                status |-> AttemptStatusFrom(item.response)])
      [] item.data.request.sync_type = "MultipleCaptureSync" ->
            Err(NotImplemented("manual multiple capture sync"))

(* A plausible slip: an unparseable identifier is sent as 0. *)
HelcimCaptureRequestDefaultsId(item) ==
    LET parsed == ParseU64(item.router_data.request.connector_transaction_id)
        ip_address == GetIpAddress(item.router_data.request)
    IN IF ip_address.tag = "Err" THEN ip_address
       ELSE Ok([pre_auth_transaction_id |->
                    IF parsed.tag = "Err" THEN 0 ELSE parsed.value,
                amount |-> item.amount,
                ip_address |-> ip_address.value,
                ecommerce |-> NONE])

(* TryFrom<&HelcimRouterData<&PaymentsCaptureRouterData>> for              *)
(* HelcimCaptureRequest: the client IP first, then the identifier.         *)
HelcimCaptureRequestTryFrom(item) ==
    LET ip_address == GetIpAddress(item.router_data.request)
        parsed == ParseU64(item.router_data.request.connector_transaction_id)
    IN IF ip_address.tag = "Err" THEN ip_address
       ELSE IF parsed.tag = "Err" THEN Err(RequestEncodingFailed)
       ELSE Ok([pre_auth_transaction_id |-> parsed.value,
                amount |-> item.amount,
                ip_address |-> ip_address.value,
                ecommerce |-> NONE])

(* A plausible slip: the metadata carries the id as its decimal string. *)
CaptureResponseStringId(item) ==
    Ok([response |-> Ok(TransactionResponse(item.response.transaction_id,
            <<JsonObject([capture_id |->
                JsonString(U64ToString(item.response.transaction_id))])>>)),
        status |-> AttemptStatusFrom(item.response)])

(* TryFrom<ResponseRouterData<F, HelcimPaymentsResponse,                   *)
(* PaymentsCaptureData, PaymentsResponseData>>.                            *)
CaptureResponseTryFrom(item) ==
    LET connector_metadata ==
            <<HelcimMetaDataToJson([capture_id |-> item.response.transaction_id])>>
    IN Ok([response |-> Ok(TransactionResponse(item.response.transaction_id,
                                               connector_metadata)),
           status |-> AttemptStatusFrom(item.response)])

(* TryFrom<&HelcimRouterData<&RefundsRouterData<F>>> for                   *)
(* HelcimRefundRequest: the metadata first, then the client IP.            *)
HelcimRefundRequestTryFrom(item) ==
    LET helcim_meta_data == ToConnectorMeta(item.router_data.request.connector_metadata)
        ip_address == GetIpAddress(item.router_data.request)
    IN IF helcim_meta_data.tag = "Err" THEN helcim_meta_data
       ELSE IF ip_address.tag = "Err" THEN ip_address
       ELSE Ok([amount |-> item.amount,
                original_transaction_id |-> helcim_meta_data.value.capture_id,
                ip_address |-> ip_address.value,
                ecommerce |-> NONE])

(* TryFrom<RefundsResponseRouterData<api::Execute, RefundResponse>> and    *)
(* TryFrom<RefundsResponseRouterData<api::RSync, RefundResponse>>.         *)
RefundResponseTryFrom(item) ==
    Ok([response |-> Ok([connector_refund_id |-> U64ToString(item.response.transaction_id),
                         refund_status |-> RefundStatusFrom(item.response)])])

-----------------------------------------------------------------------------
(* The inputs the transformers are applied to.                              *)

Card ==
    [card_number |-> "4242424242424242",
     card_exp_month |-> <<"0", "3">>,
     card_exp_year |-> <<"2", "0", "3", "0">>,
     card_cvc |-> "737"]

(* api::PaymentMethodData: the card variant and two of the others. *)
PaymentMethodDatas ==
    {[kind |-> "Card", card |-> Card], [kind |-> "Wallet"], [kind |-> "BankRedirect"]}

AddressDetails ==
    [full_name : {NONE, "John Doe"}, line1 : {NONE, "1 Main St"},
     zip : {NONE, "94107"}, line2 : {NONE}, city : {"Calgary"}]

(* Option<Address>, Address.address being an Option<AddressDetails>. *)
Billings ==
    {<<>>, <<[address |-> <<>>]>>} \cup {<<[address |-> <<a>>]>> : a \in AddressDetails}

(* Option<BrowserInformation> with its Option ip_address. *)
BrowserInfos ==
    {<<>>, <<[ip_address |-> NONE]>>, <<[ip_address |-> "203.0.113.7"]>>}

Amounts == {"10.50"}

SyncRequestTypes == {"SinglePaymentSync", "MultipleCaptureSync"}

(* Connector metadata a refund request may carry: none, values that are no *)
(* HelcimMetaData, and HelcimMetaData of every transaction id.             *)
ConnectorMetadatas ==
    {<<>>,
     <<JsonObject(<<>>)>>,
     <<JsonString(<<"7">>)>>,
     <<JsonObject([capture_id |-> JsonString(<<"7">>)])>>,
     <<JsonObject([capture_id |-> JsonNumber(-1)])>>,
     <<JsonObject([order_id |-> JsonNumber(7)])>>}
    \cup {<<JsonObject([capture_id |-> JsonNumber(n), order_id |-> JsonNumber(7)])>> :
            n \in TxnIds}

AuthorizeItems ==
    {[amount |-> a,
      router_data |-> [billing |-> b,
                       request |-> [payment_method_data |-> pmd, browser_info |-> bi,
                                    currency |-> "CAD", email |-> NONE]]] :
        a \in Amounts, b \in Billings, pmd \in PaymentMethodDatas, bi \in BrowserInfos}

NoResponse == [op |-> "none"]

InitHelcim ==
    /\ tasks = [t \in Tasks |-> IdleTask]
    /\ payouts = {}
    /\ call = NoCall
    /\ latest = NoResponse

(* The connector_transaction_id of the latest canonical response. *)
LatestTransactionIds ==
    IF latest = NoResponse THEN {} ELSE {latest.data.response.value.resource_id.id}

(* The connector_metadata of the latest canonical response. *)
LatestMetadatas ==
    IF latest = NoResponse THEN {} ELSE {latest.data.response.value.connector_metadata}

(* A payment response transformer ran: its call is recorded, and on Ok    *)
(* its output is the latest canonical response of the payment.             *)
PaymentResponded(op, item, output) ==
    /\ call' = [op |-> op, input |-> item, output |-> output]
    /\ latest' = IF output.tag = "Ok"
                 THEN [op |-> op, wire |-> item.response, data |-> output.value]
                 ELSE latest
    /\ UNCHANGED <<tasks, payouts>>

(* A request transformer, or the refund response transformer, ran: its    *)
(* call is recorded.                                                       *)
Transformed(op, item, output) ==
    /\ call' = [op |-> op, input |-> item, output |-> output]
    /\ UNCHANGED <<tasks, payouts, latest>>

AuthorizeRequest(item) ==
    Transformed("authorize_request", item, HelcimPaymentsRequestTryFrom(item))

AuthorizeResponse(response) ==
    LET item == [response |-> response]
    IN PaymentResponded("authorize_response", item, AuthorizeResponseTryFrom(item))

SyncResponse(sync_type, response) ==
    LET item == [response |-> response,
                 data |-> [request |-> [sync_type |-> sync_type]]]
    IN PaymentResponded("sync_response", item, SyncResponseTryFrom(item))

CaptureRequest(amount, connector_transaction_id, browser_info) ==
    LET item == [amount |-> amount,
                 router_data |-> [request |->
                    [connector_transaction_id |-> connector_transaction_id,
                     browser_info |-> browser_info]]]
    IN Transformed("capture_request", item, HelcimCaptureRequestTryFrom(item))

CaptureResponse(response) ==
    LET item == [response |-> response]
    IN PaymentResponded("capture_response", item, CaptureResponseTryFrom(item))

RefundRequest(amount, connector_metadata, browser_info) ==
    LET item == [amount |-> amount,
                 router_data |-> [request |->
                    [connector_metadata |-> connector_metadata,
                     browser_info |-> browser_info]]]
    IN Transformed("refund_request", item, HelcimRefundRequestTryFrom(item))

RefundResponse(flow, response) ==
    LET item == [flow |-> flow, response |-> response]
    IN Transformed("refund_response", item, RefundResponseTryFrom(item))

NextHelcim ==
    \/ \E item \in AuthorizeItems : AuthorizeRequest(item)
    \/ \E response \in HelcimPaymentsResponses : AuthorizeResponse(response)
    \/ \E sync_type \in SyncRequestTypes, response \in HelcimPaymentsResponses :
            SyncResponse(sync_type, response)
    \/ \E amount \in Amounts, id \in Strings \cup LatestTransactionIds,
          browser_info \in BrowserInfos :
            CaptureRequest(amount, id, browser_info)
    \/ \E response \in HelcimPaymentsResponses : CaptureResponse(response)
    \/ \E amount \in Amounts, meta \in ConnectorMetadatas \cup LatestMetadatas,
          browser_info \in BrowserInfos :
            RefundRequest(amount, meta, browser_info)
    \/ \E flow \in {"Execute", "RSync"}, response \in RefundResponses :
            RefundResponse(flow, response)

SpecHelcim == InitHelcim /\ [][NextHelcim]_vars

-----------------------------------------------------------------------------
(* Properties of the Helcim transformers.                                   *)

(* The Status Reconciliation Matrix as the specification tabulates it. *)
MatrixTable ==
    [Purchase |-> [Approved |-> AttemptStatus("Charged"),
                   Declined |-> AttemptStatus("Failure")],
     PreAuth |-> [Approved |-> AttemptStatus("Authorized"),
                  Declined |-> AttemptStatus("AuthorizationFailed")],
     Capture |-> [Approved |-> AttemptStatus("Charged"),
                  Declined |-> AttemptStatus("CaptureFailed")],
     Verify |-> [Approved |-> AttemptStatus("AuthenticationSuccessful"),
                 Declined |-> AttemptStatus("AuthenticationFailed")],
     Refund |-> [Approved |-> RefundStatus("Success"),
                 Declined |-> RefundStatus("Failure")]]

PaymentResponseOps == {"authorize_response", "sync_response", "capture_response"}

ClientIpPresent(request) ==
    /\ request.browser_info # <<>>
    /\ request.browser_info[1].ip_address # NONE

(* C4: every response transformer that resolves a state resolves the table *)
(* entry of the response's (type, status), for the four payment types and  *)
(* for Refund; the Approved and the Declined state of a type differ.       *)
C4_StatusMatrix ==
    /\ call.op \in PaymentResponseOps /\ call.output.tag = "Ok" =>
          call.output.value.status =
              MatrixTable[call.input.response.transaction_type][call.input.response.status]
    /\ call.op = "refund_response" =>
          /\ call.output.tag = "Ok"
          /\ call.output.value.response.value.refund_status =
                MatrixTable[call.input.response.transaction_type][call.input.response.status]
    /\ \A type \in HelcimTransactionType, id \in TxnIds :
          AttemptStatusFrom([status |-> "Approved", transaction_id |-> id,
                             transaction_type |-> type])
            # AttemptStatusFrom([status |-> "Declined", transaction_id |-> id,
                                 transaction_type |-> type])
    /\ \A type \in HelcimRefundTransactionType, id \in TxnIds :
          RefundStatusFrom([status |-> "Approved", transaction_id |-> id,
                            transaction_type |-> type])
            # RefundStatusFrom([status |-> "Declined", transaction_id |-> id,
                                transaction_type |-> type])

(* A declined refund was mapped to the refund failure after a declined     *)
(* capture had been mapped to CaptureFailed.                               *)
C4_Witness ==
    /\ call.op = "refund_response"
    /\ call.input.response.status = "Declined"
    /\ call.output.value.response.value.refund_status = RefundStatus("Failure")
    /\ latest.op = "capture_response"
    /\ latest.wire.status = "Declined"
    /\ latest.data.status = AttemptStatus("CaptureFailed")

(* C5: a refund request that carries, as its connector metadata, the       *)
(* metadata the capture response transformer attached for transaction id   *)
(* t, and has the client IP, is transformed to a wire request whose        *)
(* original_transaction_id is t.                                           *)
C5_CorrelationRoundTrip ==
    /\ call.op = "refund_request"
    /\ latest.op = "capture_response"
    /\ call.input.router_data.request.connector_metadata
            = latest.data.response.value.connector_metadata
    /\ ClientIpPresent(call.input.router_data.request)
    => /\ call.output.tag = "Ok"
       /\ call.output.value.original_transaction_id = latest.wire.transaction_id

(* The refund request of a captured transaction with a non-zero id was     *)
(* built from the capture's metadata.                                      *)
C5_Witness ==
    /\ call.op = "refund_request"
    /\ latest.op = "capture_response"
    /\ latest.wire.transaction_id = MaxTxnId
    /\ call.input.router_data.request.connector_metadata
            = latest.data.response.value.connector_metadata
    /\ ClientIpPresent(call.input.router_data.request)
    /\ call.output.tag = "Ok"
    /\ call.output.value.original_transaction_id = MaxTxnId

(* C7: the authorize request of a card payment without a billing address   *)
(* fails with the missing-field error naming billing.address; no wire      *)
(* request is built.                                                       *)
C7_MissingBillingAddress ==
    /\ call.op = "authorize_request"
    /\ call.input.router_data.request.payment_method_data.kind = "Card"
    /\ \/ call.input.router_data.billing = <<>>
       \/ call.input.router_data.billing[1].address = <<>>
    => call.output = Err(MissingRequiredField("billing.address"))

(* A card payment whose billing carries no address details, with the       *)
(* client IP present, was refused for billing.address.                     *)
C7_Witness ==
    /\ call.op = "authorize_request"
    /\ call.input.router_data.request.payment_method_data.kind = "Card"
    /\ call.input.router_data.billing = <<[address |-> <<>>]>>
    /\ ClientIpPresent(call.input.router_data.request)
    /\ call.output = Err(MissingRequiredField("billing.address"))

(* The identifier a capture or refund request needs is missing or not an   *)
(* unsigned integer.                                                       *)
CaptureIdUnparseable(item) ==
    ParseU64(item.router_data.request.connector_transaction_id).tag = "Err"

RefundIdUnparseable(item) ==
    \/ item.router_data.request.connector_metadata = <<>>
    \/ HelcimMetaDataFromJson(item.router_data.request.connector_metadata[1]).tag = "Err"

(* C8 as stated: a capture request whose transaction reference does not    *)
(* parse as an unsigned integer, and a refund request whose metadata is    *)
(* absent or holds no parseable capture id, fail with                      *)
(* RequestEncodingFailed.                                                  *)
C8_AsStated ==
    /\ call.op = "capture_request" /\ CaptureIdUnparseable(call.input)
          => call.output = Err(RequestEncodingFailed)
    /\ call.op = "refund_request" /\ RefundIdUnparseable(call.input)
          => call.output = Err(RequestEncodingFailed)

(* C8 amended: a capture request whose client IP is present and whose      *)
(* transaction reference does not parse as an unsigned integer fails with  *)
(* RequestEncodingFailed (the client IP is read first: without it the      *)
(* failure is the missing-field error, whatever the reference); a refund   *)
(* request whose metadata is absent or holds no parseable capture id fails *)
(* with RequestEncodingFailed; no wire request is built in these cases.    *)
C8_UnparseableIdentifier ==
    /\ call.op = "capture_request" /\ CaptureIdUnparseable(call.input) =>
          IF ClientIpPresent(call.input.router_data.request)
          THEN call.output = Err(RequestEncodingFailed)
          ELSE /\ call.output.tag = "Err"
               /\ call.output.error.kind = "MissingRequiredField"
    /\ call.op = "refund_request" /\ RefundIdUnparseable(call.input)
          => call.output = Err(RequestEncodingFailed)

(* A capture request with the client IP and a non-numeric reference was    *)
(* refused with RequestEncodingFailed.                                     *)
C8_Witness ==
    /\ call.op = "capture_request"
    /\ call.input.router_data.request.connector_transaction_id = <<"7", "a">>
    /\ ClientIpPresent(call.input.router_data.request)
    /\ call.output = Err(RequestEncodingFailed)

(* C9: the authorize request of a payment method other than Card fails     *)
(* with NotImplemented("Payment methods"), whatever the billing address    *)
(* and the client IP are; no wire request is built.                        *)
C9_NonCardNotImplemented ==
    /\ call.op = "authorize_request"
    /\ call.input.router_data.request.payment_method_data.kind # "Card"
    => call.output = Err(NotImplemented("Payment methods"))

(* A wallet payment with neither billing nor browser information was       *)
(* refused as not implemented.                                             *)
C9_Witness ==
    /\ call.op = "authorize_request"
    /\ call.input.router_data.request.payment_method_data.kind = "Wallet"
    /\ call.input.router_data.billing = <<>>
    /\ call.input.router_data.request.browser_info = <<>>
    /\ call.output = Err(NotImplemented("Payment methods"))

(* C10: the sync response transformer fails with                           *)
(* NotImplemented("manual multiple capture sync") on a MultipleCaptureSync *)
(* request, whatever the response, and on a SinglePaymentSync request      *)
(* returns a response whose status is the table entry of the response's    *)
(* (type, status).                                                         *)
C10_SyncResponse ==
    call.op = "sync_response" =>
        IF call.input.data.request.sync_type = "MultipleCaptureSync"
        THEN call.output = Err(NotImplemented("manual multiple capture sync"))
        ELSE /\ call.output.tag = "Ok"
             /\ call.output.value.response.tag = "Ok"
             /\ call.output.value.status =
                    MatrixTable[call.input.response.transaction_type]
                               [call.input.response.status]

(* A multiple-capture sync of an approved capture was refused, and the     *)
(* latest canonical response is still the one before it.                   *)
C10_Witness ==
    /\ call.op = "sync_response"
    /\ call.input.data.request.sync_type = "MultipleCaptureSync"
    /\ call.input.response.status = "Approved"
    /\ call.input.response.transaction_type = "Capture"
    /\ call.output = Err(NotImplemented("manual multiple capture sync"))
    /\ latest.op = "sync_response"
    /\ latest.data.status = AttemptStatus("Authorized")

(* The refund request that follows the latest canonical response: its      *)
(* connector_metadata is the one that response carries.                    *)
RefundItemAfterLatest(amount, browser_info) ==
    [amount |-> amount,
     router_data |-> [request |->
        [connector_metadata |-> latest.data.response.value.connector_metadata,
         browser_info |-> browser_info]]]

(* The payment is in state Charged by its latest canonical response. *)
LatestCharged ==
    /\ latest # NoResponse
    /\ latest.data.status = AttemptStatus("Charged")

(* C11 as stated: whenever authorize, capture and single-payment-sync      *)
(* responses have brought the payment to Charged, the latest canonical     *)
(* response carries metadata with a capture id, and the refund request     *)
(* that follows it with the client IP present is built, referring to the   *)
(* charged transaction; also when Charged is reached by an approved        *)
(* Purchase through the authorize response or by a sync response.          *)
C11_AsStated ==
    LatestCharged =>
        /\ latest.data.response.value.connector_metadata # <<>>
        /\ ToConnectorMeta(latest.data.response.value.connector_metadata).tag = "Ok"
        /\ \A amount \in Amounts, browser_info \in BrowserInfos :
              LET item == RefundItemAfterLatest(amount, browser_info)
                  refund == HelcimRefundRequestTryFrom(item)
              IN ClientIpPresent(item.router_data.request) =>
                    /\ refund.tag = "Ok"
                    /\ refund.value.original_transaction_id
                            = latest.wire.transaction_id

(* What the transformers do instead: only a capture response that charges  *)
(* carries the capture id; a payment charged by the authorize response of  *)
(* an approved Purchase, or whose latest response is a sync response,      *)
(* carries no metadata, and its refund request fails with                  *)
(* RequestEncodingFailed.                                                  *)
ChargedRefundableOnlyAfterCapture ==
    LatestCharged =>
        \A amount \in Amounts, browser_info \in BrowserInfos :
            LET item == RefundItemAfterLatest(amount, browser_info)
                refund == HelcimRefundRequestTryFrom(item)
            IN IF latest.op = "capture_response"
               THEN ClientIpPresent(item.router_data.request) =>
                        /\ refund.tag = "Ok"
                        /\ refund.value.original_transaction_id
                                = latest.wire.transaction_id
               ELSE /\ latest.op \in {"authorize_response", "sync_response"}
                    /\ latest.data.response.value.connector_metadata = <<>>
                    /\ refund = Err(RequestEncodingFailed)

(* An approved Purchase was charged by the authorize response, and the     *)
(* refund request built from that response, client IP present, was refused.*)
ChargedByPurchaseRefundRefused ==
    /\ LatestCharged
    /\ latest.op = "authorize_response"
    /\ latest.wire.transaction_type = "Purchase"
    /\ call.op = "refund_request"
    /\ call.input.router_data.request.connector_metadata
            = latest.data.response.value.connector_metadata
    /\ ClientIpPresent(call.input.router_data.request)
    /\ call.output = Err(RequestEncodingFailed)

(* A charged capture, its metadata present, was then reported by a sync    *)
(* response, which carries none.                                           *)
ChargedBySyncWithoutMetadata ==
    /\ LatestCharged
    /\ latest.op = "sync_response"
    /\ latest.wire.transaction_type = "Capture"
    /\ latest.data.response.value.connector_metadata = <<>>

====
